---- MODULE Spec2Model ----
(***************************************************************************)
(* A model of libo.py: manifest resolution (create_mapping), the staggered *)
(* multi-threaded synchronisation (sync_repos / clone_repo) and the        *)
(* credential handling of main.                                            *)
(*                                                                         *)
(* Text values (XML attribute values, paths, URLs) are sequences of        *)
(* tokens, so that "in", count('/') and path joins are computed on the     *)
(* pieces of the text, as the code computes them on its characters.        *)
(* A Python dict is a sequence of entries in insertion order.              *)
(***************************************************************************)
EXTENDS Integers, Sequences, FiniteSets, TLC

VARIABLES
    \* ---- create_mapping
    remote_tag,     \* list of <remote> attribute dicts, document order
    default_tag,    \* list of <default> attribute dicts (findall result)
    project_tag,    \* list of <project> attribute dicts, document order
    mapping,        \* the dict under construction: entries in insertion order
    idx,            \* position of the for loop over project_tag
    rpc,            \* where create_mapping is: start / loop / done / error
    \* ---- sync_repos
    manifest,       \* the mapping given to sync_repos, entries in dict order
    threads,        \* dict count -> list of threads, groups in insertion order
    mpc,            \* where the main thread is
    gi,             \* index of the group the start / join loop is at
    ti,             \* index of the thread in that group
    wpc,            \* per worker thread: where clone_repo is
    sawExists,      \* per worker: what os.path.exists(dst_path) returned
    calls,          \* per worker: the repository-client calls it made
    startCount,     \* per worker: how often thread.start() was called on it
    fs,             \* the paths that exist under the destination root
    fs0,            \* the paths that existed when sync_repos was called
    \* ---- main
    args,           \* parsed command line (absent option = absent field)
    keyring,        \* the credential store: (service, user) -> password
    exitStatus      \* process exit status, -1 while running

resolveVars == <<remote_tag, default_tag, project_tag, mapping, idx, rpc>>
syncVars == <<manifest, threads, mpc, gi, ti, wpc, sawExists, calls, startCount, fs, fs0>>
mainVars == <<args, keyring, exitStatus>>
vars == <<resolveVars, syncVars, mainVars>>

(***************************************************************************)
(* Bounds of the model.                                                    *)
(***************************************************************************)
MaxRemotes == 2
MaxProjects == 2
MaxRepos == 2

SeqsUpTo(S, n) == UNION {[1..k -> S] : k \in 0..n}

(***************************************************************************)
(* Program constants.                                                      *)
(***************************************************************************)
KEYRING_SERVICE_NAME == "GITHUB_PAT"
KEYRING_USER_NAME == "GITHUB_PAT_USER"
KEYRING_SERVICE_NAME_GHE == "GHE_PAT"
KEYRING_USER_NAME_GHE == "GHE_PAT_USER"

PrimaryKey == <<KEYRING_SERVICE_NAME, KEYRING_USER_NAME>>
EnterpriseKey == <<KEYRING_SERVICE_NAME_GHE, KEYRING_USER_NAME_GHE>>

GheMarker == "schneider-electric"

(***************************************************************************)
(* Input texts.                                                            *)
(***************************************************************************)
GithubUrl == <<"https", "://", "github.com">>
GheUrl == <<"https", "://", "github.", "schneider-electric", ".com">>

RemoteNames == {<<"origin">>, <<"mirror">>}
FetchValues == {GithubUrl, <<"mirror">>}
ProjectNames == {<<"libA">>, <<"libB">>}
ProjectPaths == {<<"a">>, <<"a", "/", "b">>}
DefaultRevisions == {<<"main">>}
ProjectRevisions == {<<"dev">>}
ProjectRemotes == {<<"mirror">>}

RemoteDecls == [name : RemoteNames, fetch : FetchValues]
DefaultDecls == [revision : DefaultRevisions, remote : RemoteNames]
ProjectDecls ==
    [name : ProjectNames, path : ProjectPaths]
    \cup [name : ProjectNames, path : ProjectPaths, revision : ProjectRevisions]
    \cup [name : ProjectNames, path : ProjectPaths, remote : ProjectRemotes]
    \cup [name : ProjectNames, path : ProjectPaths,
          revision : ProjectRevisions, remote : ProjectRemotes]

(***************************************************************************)
(* create_mapping                                                          *)
(***************************************************************************)

\* "key in dict" for a dict kept as a sequence of entries; 0 when absent
KeyIndex(m, name) ==
    IF \E i \in 1..Len(m) : m[i].name = name
    THEN CHOOSE i \in 1..Len(m) : m[i].name = name
    ELSE 0

\* for tag in remote_tag (from position k on): a tag whose name equals the
\* current value of the entry's "remote" replaces it by the tag's fetch
RECURSIVE RemoteLoop(_, _, _)
RemoteLoop(remote, tags, k) ==
    IF k > Len(tags) THEN remote
    ELSE RemoteLoop(IF tags[k].name = remote THEN tags[k].fetch ELSE remote,
                    tags, k + 1)

\* the "revision" an iteration stores for item
ItemRevision(item, default) ==
    IF "revision" \notin DOMAIN item THEN default.revision ELSE item.revision

\* the "remote" an iteration stores for item before the loop over remote_tag
ItemRemote(item, default) ==
    IF "remote" \notin DOMAIN item THEN default.remote ELSE item.remote

\* StoredEntry with a fault: a revision stored by an earlier declaration of
\* the name is kept when the item has none of its own
StoredEntryKeepsOld(old, item, default, tags) ==
    [name |-> item.name,
     path |-> item.path,
     revision |-> IF "revision" \notin DOMAIN item /\ "revision" \in DOMAIN old
                  THEN old.revision
                  ELSE ItemRevision(item, default),
     remote |-> RemoteLoop(ItemRemote(item, default), tags, 1)]

\* the value of mapping[name] after the iteration for item; old is the value
\* mapping[name] had when the iteration began ({} when the key was new)
StoredEntry(old, item, default, tags) ==
    [name |-> item.name,
     path |-> item.path,
     revision |-> ItemRevision(item, default),
     remote |-> RemoteLoop(ItemRemote(item, default), tags, 1)]

\* one iteration of the loop over project_tag
ResolveProject(m, item, default, tags) ==
    LET k == KeyIndex(m, item.name) IN
    IF k = 0
    THEN Append(m, StoredEntry([name |-> item.name], item, default, tags))
    ELSE [m EXCEPT ![k] = StoredEntry(m[k], item, default, tags)]

ResolveInit ==
    /\ remote_tag \in SeqsUpTo(RemoteDecls, MaxRemotes)
    /\ default_tag \in SeqsUpTo(DefaultDecls, 1)
    /\ project_tag \in SeqsUpTo(ProjectDecls, MaxProjects)
    /\ mapping = <<>>
    /\ idx = 1
    /\ rpc = "start"

\* lines 166-172: parse, findall, [0] of the default list, mapping = {}
ParseManifest ==
    /\ rpc = "start"
    /\ rpc' = IF Len(default_tag) = 0 THEN "error" ELSE "loop"
    /\ mapping' = <<>>
    /\ idx' = 1
    /\ UNCHANGED <<remote_tag, default_tag, project_tag, syncVars, mainVars>>

\* lines 173-195: one iteration of "for item in project_tag"
LoopProject ==
    /\ rpc = "loop"
    /\ idx <= Len(project_tag)
    /\ mapping' = ResolveProject(mapping, project_tag[idx], default_tag[1], remote_tag)
    /\ idx' = idx + 1
    /\ UNCHANGED <<remote_tag, default_tag, project_tag, rpc, syncVars, mainVars>>

\* line 197: return mapping
ReturnMapping ==
    /\ rpc = "loop"
    /\ idx > Len(project_tag)
    /\ rpc' = "done"
    /\ UNCHANGED <<remote_tag, default_tag, project_tag, mapping, idx, syncVars, mainVars>>

(***************************************************************************)
(* sync_repos                                                              *)
(***************************************************************************)
RepoPaths == {<<"a">>, <<"a", "/", "b">>, <<"c">>}
RepoSources == {[revision |-> <<"main">>, remote |-> GithubUrl],
                [revision |-> <<"dev">>, remote |-> GithubUrl],
                [revision |-> <<"dev">>, remote |-> GheUrl]}
StoredPat == "pat"

\* the credential store before the run: each entry present or not
Stores == UNION {[K -> {StoredPat}] : K \in SUBSET {PrimaryKey, EnterpriseKey}}

RepoName(i) == <<"lib", ToString(i)>>

\* the mappings create_mapping can return: one entry per distinct name
Manifests ==
    UNION {{[i \in 1..n |-> [name |-> RepoName(i), path |-> p[i],
                             revision |-> s[i].revision, remote |-> s[i].remote]] :
            p \in [1..n -> RepoPaths], s \in [1..n -> RepoSources]} :
           n \in 0..MaxRepos}

Workers == 1..Len(manifest)

\* str.count(sub) for a one-token sub
RECURSIVE Count(_, _)
Count(text, sub) ==
    IF text = <<>> THEN 0
    ELSE (IF Head(text) = sub THEN 1 ELSE 0) + Count(Tail(text), sub)

\* sub in text, for a one-token sub
Contains(text, sub) == \E i \in 1..Len(text) : text[i] = sub

\* pathlib.Path(dst_path) / repo_data["path"], relative to dst_path: the
\* path's components
IsName(t) == t # "/"
DstPath(path) == SelectSeq(path, IsName)

\* a directory and the parent directories creating it creates
WithParents(dir) == {SubSeq(dir, 1, k) : k \in 1..Len(dir)}

\* position of the group with key count in the threads dict, 0 when absent
GroupIndex(t, count) ==
    IF \E i \in 1..Len(t) : t[i].count = count
    THEN CHOOSE i \in 1..Len(t) : t[i].count = count
    ELSE 0

\* lines 226-238: threads[count].append(task_thread) for each manifest item
RECURSIVE GroupThreads(_, _, _)
GroupThreads(m, k, t) ==
    IF k > Len(m) THEN t
    ELSE LET count == Count(m[k].path, "/")
             g == GroupIndex(t, count)
         IN GroupThreads(m, k + 1,
                IF g = 0
                THEN Append(t, [count |-> count, list |-> <<k>>])
                ELSE [t EXCEPT ![g].list = Append(@, k)])

\* get_pat(ghe=...): the key looked up for a remote
PatKey(remote) ==
    IF Contains(remote, GheMarker) THEN EnterpriseKey ELSE PrimaryKey

Terminated(r) == wpc[r] \in {"ok", "MissingCredential", "CloneFailed", "CheckoutFailed"}
Failed(r) == wpc[r] \in {"MissingCredential", "CloneFailed", "CheckoutFailed"}
Started(r) == startCount[r] > 0

SyncInit ==
    /\ manifest \in Manifests
    /\ threads = <<>>
    /\ mpc = "build"
    /\ gi = 1
    /\ ti = 1
    /\ wpc = [r \in 1..Len(manifest) |-> "new"]
    /\ sawExists = [r \in 1..Len(manifest) |-> "unknown"]
    /\ calls = [r \in 1..Len(manifest) |-> <<>>]
    /\ startCount = [r \in 1..Len(manifest) |-> 0]
    /\ fs \in {d \in SUBSET (UNION {WithParents(DstPath(p)) : p \in RepoPaths}) :
                 \A x \in d : WithParents(x) \subseteq d}
    /\ fs0 = fs
    /\ keyring \in Stores
    /\ exitStatus = -1

\* lines 223-238: build the threads dict; an empty dict ends both loops
BuildThreads ==
    /\ mpc = "build"
    /\ threads' = GroupThreads(manifest, 1, <<>>)
    /\ mpc' = IF threads' = <<>> THEN "returned" ELSE "start"
    /\ gi' = 1
    /\ ti' = 1
    /\ UNCHANGED <<manifest, wpc, sawExists, calls, startCount, fs, fs0, resolveVars, mainVars>>

\* lines 241-242: thread.start() for the next thread of the current group
StartThread ==
    /\ mpc = "start"
    /\ ti <= Len(threads[gi].list)
    /\ LET r == threads[gi].list[ti] IN
        /\ startCount' = [startCount EXCEPT ![r] = @ + 1]
        /\ wpc' = [wpc EXCEPT ![r] = "get_pat"]
    /\ ti' = ti + 1
    /\ UNCHANGED <<manifest, threads, mpc, gi, sawExists, calls, fs, fs0, resolveVars, mainVars>>

\* line 243: time.sleep(1) after the group's threads were started; after the
\* last group the join loop begins
Sleep ==
    /\ mpc = "start"
    /\ ti > Len(threads[gi].list)
    /\ IF gi < Len(threads)
       THEN /\ gi' = gi + 1
            /\ mpc' = "start"
       ELSE /\ gi' = 1
            /\ mpc' = "join"
    /\ ti' = 1
    /\ UNCHANGED <<manifest, threads, wpc, sawExists, calls, startCount, fs, fs0, resolveVars, mainVars>>

\* JoinThread with a fault: join does not wait for the thread to terminate
JoinThreadNoWait ==
    /\ mpc = "join"
    /\ IF ti < Len(threads[gi].list)
       THEN /\ ti' = ti + 1
            /\ UNCHANGED <<gi, mpc>>
       ELSE /\ ti' = 1
            /\ IF gi < Len(threads)
               THEN /\ gi' = gi + 1
                    /\ UNCHANGED mpc
               ELSE /\ gi' = gi
                    /\ mpc' = "returned"
    /\ UNCHANGED <<manifest, threads, wpc, sawExists, calls, startCount, fs, fs0, resolveVars, mainVars>>

\* lines 245-247: thread.join() returns once that thread has terminated;
\* after the last thread of the last group sync_repos returns
JoinThread ==
    /\ mpc = "join"
    /\ Terminated(threads[gi].list[ti])
    /\ IF ti < Len(threads[gi].list)
       THEN /\ ti' = ti + 1
            /\ UNCHANGED <<gi, mpc>>
       ELSE /\ ti' = 1
            /\ IF gi < Len(threads)
               THEN /\ gi' = gi + 1
                    /\ UNCHANGED mpc
               ELSE /\ gi' = gi
                    /\ mpc' = "returned"
    /\ UNCHANGED <<manifest, threads, wpc, sawExists, calls, startCount, fs, fs0, resolveVars, mainVars>>

\* WorkerGetPat with a fault: a missing credential stops the other running
\* workers as well
WorkerGetPatCancels(r) ==
    /\ wpc[r] = "get_pat"
    /\ wpc' = IF PatKey(manifest[r].remote) \in DOMAIN keyring
              THEN [wpc EXCEPT ![r] = "exists"]
              ELSE [w \in DOMAIN wpc |->
                      IF w = r THEN "MissingCredential"
                      ELSE IF wpc[w] \in {"get_pat", "exists", "checkout", "clone"}
                           THEN "cancelled" ELSE wpc[w]]
    /\ UNCHANGED <<manifest, threads, mpc, gi, ti, sawExists, calls, startCount, fs, fs0,
                   resolveVars, mainVars>>

\* line 206: get_pat raises in the worker thread when the store has no entry
WorkerGetPat(r) ==
    /\ wpc[r] = "get_pat"
    /\ wpc' = [wpc EXCEPT ![r] =
                 IF PatKey(manifest[r].remote) \in DOMAIN keyring
                 THEN "exists" ELSE "MissingCredential"]
    /\ UNCHANGED <<manifest, threads, mpc, gi, ti, sawExists, calls, startCount, fs, fs0,
                   resolveVars, mainVars>>

\* WorkerExists with a fault: the two branches are exchanged
WorkerExistsSwapped(r) ==
    /\ wpc[r] = "exists"
    /\ sawExists' = [sawExists EXCEPT ![r] =
                       IF DstPath(manifest[r].path) \in fs THEN "yes" ELSE "no"]
    /\ wpc' = [wpc EXCEPT ![r] = IF sawExists'[r] = "yes" THEN "clone" ELSE "checkout"]
    /\ UNCHANGED <<manifest, threads, mpc, gi, ti, calls, startCount, fs, fs0,
                   resolveVars, mainVars>>

\* line 211: if os.path.exists(dst_path)
WorkerExists(r) ==
    /\ wpc[r] = "exists"
    /\ sawExists' = [sawExists EXCEPT ![r] =
                       IF DstPath(manifest[r].path) \in fs THEN "yes" ELSE "no"]
    /\ wpc' = [wpc EXCEPT ![r] = IF sawExists'[r] = "yes" THEN "checkout" ELSE "clone"]
    /\ UNCHANGED <<manifest, threads, mpc, gi, ti, calls, startCount, fs, fs0,
                   resolveVars, mainVars>>

\* lines 215-216: Repo(dst_path).git.checkout(revision); the repository
\* client succeeds or raises
WorkerCheckout(r) ==
    /\ wpc[r] = "checkout"
    /\ calls' = [calls EXCEPT ![r] =
                   Append(@, [op |-> "checkout", dst |-> DstPath(manifest[r].path),
                              ref |-> manifest[r].revision])]
    /\ \E ok \in BOOLEAN :
         wpc' = [wpc EXCEPT ![r] = IF ok THEN "ok" ELSE "CheckoutFailed"]
    /\ UNCHANGED <<manifest, threads, mpc, gi, ti, sawExists, startCount, fs, fs0,
                   resolveVars, mainVars>>

\* line 221: Repo.clone_from(url, dst_path, branch=revision); a successful
\* clone creates dst_path and its missing parents
WorkerClone(r) ==
    /\ wpc[r] = "clone"
    /\ calls' = [calls EXCEPT ![r] =
                   Append(@, [op |-> "clone", dst |-> DstPath(manifest[r].path),
                              ref |-> manifest[r].revision])]
    /\ \E ok \in BOOLEAN :
         /\ wpc' = [wpc EXCEPT ![r] = IF ok THEN "ok" ELSE "CloneFailed"]
         /\ fs' = IF ok THEN fs \cup WithParents(DstPath(manifest[r].path)) ELSE fs
    /\ UNCHANGED <<manifest, threads, mpc, gi, ti, sawExists, startCount, fs0,
                   resolveVars, mainVars>>

\* lines 313-327: sync_repos has returned and main runs off its end; an
\* exception raised in a worker thread ended that thread only
MainExit ==
    /\ mpc = "returned"
    /\ mpc' = "exited"
    /\ exitStatus' = 0
    /\ UNCHANGED <<manifest, threads, gi, ti, wpc, sawExists, calls, startCount, fs, fs0,
                   resolveVars, args, keyring>>

GetPatStep == \E r \in Workers : WorkerGetPat(r)
ExistsStep == \E r \in Workers : WorkerExists(r)
CheckoutStep == \E r \in Workers : WorkerCheckout(r)
CloneStep == \E r \in Workers : WorkerClone(r)

(***************************************************************************)
(* main: the credential options                                            *)
(***************************************************************************)
PatValues == {"", "tokA", "tokB"}

\* argparse leaves an option that was not given as None: an absent field
ArgSets ==
    {[x \in {} |-> ""]}
    \cup [pat : PatValues]
    \cup [ghe_pat : PatValues]
    \cup [pat : PatValues, ghe_pat : PatValues]

\* "if args.<opt>:" is false for None and for the empty string
Truthy(a, opt) == opt \in DOMAIN a /\ a[opt] # ""

\* keyring.set_password(service, user, value)
SetPassword(store, key, value) ==
    [k \in DOMAIN store \cup {key} |-> IF k = key THEN value ELSE store[k]]

MainInit ==
    /\ args \in ArgSets
    /\ keyring \in Stores
    /\ exitStatus = -1
    /\ mpc = "pat"

\* lines 287-291: if args.pat: set_password(GITHUB_PAT, GITHUB_PAT_USER, args.pat)
MainSetPat ==
    /\ mpc = "pat"
    /\ keyring' = IF Truthy(args, "pat")
                  THEN SetPassword(keyring, PrimaryKey, args.pat)
                  ELSE keyring
    /\ mpc' = "ghe_pat"
    /\ UNCHANGED <<args, exitStatus, resolveVars,
                   manifest, threads, gi, ti, wpc, sawExists, calls, startCount, fs, fs0>>

\* lines 293-297: if args.ghe_pat: set_password(GHE_PAT, GHE_PAT_USER, args.pat).
\* With --pat not given the value passed is None: the keyring backend either
\* raises (main dies with status 1) or stores an empty password.
MainSetGhePat ==
    /\ mpc = "ghe_pat"
    /\ IF ~Truthy(args, "ghe_pat")
       THEN /\ mpc' = "dispatch"
            /\ UNCHANGED <<keyring, exitStatus>>
       ELSE IF "pat" \in DOMAIN args
       THEN /\ keyring' = SetPassword(keyring, EnterpriseKey, args.pat)
            /\ mpc' = "dispatch"
            /\ UNCHANGED exitStatus
       ELSE \/ /\ mpc' = "exited"
               /\ exitStatus' = 1
               /\ UNCHANGED keyring
            \/ /\ keyring' = SetPassword(keyring, EnterpriseKey, "")
               /\ mpc' = "dispatch"
               /\ UNCHANGED exitStatus
    /\ UNCHANGED <<args, resolveVars,
                   manifest, threads, gi, ti, wpc, sawExists, calls, startCount, fs, fs0>>

\* lines 299-327 when none of --init, --sync, --start, --status is given
MainNoAction ==
    /\ mpc = "dispatch"
    /\ mpc' = "exited"
    /\ exitStatus' = 0
    /\ UNCHANGED <<args, keyring, resolveVars,
                   manifest, threads, gi, ti, wpc, sawExists, calls, startCount, fs, fs0>>

(***************************************************************************)
(* Specifications                                                          *)
(***************************************************************************)
ResolveIdle ==
    /\ remote_tag = <<>>
    /\ default_tag = <<>>
    /\ project_tag = <<>>
    /\ mapping = <<>>
    /\ idx = 1
    /\ rpc = "idle"

SyncIdle ==
    /\ manifest = <<>>
    /\ threads = <<>>
    /\ gi = 1
    /\ ti = 1
    /\ wpc = <<>>
    /\ sawExists = <<>>
    /\ calls = <<>>
    /\ startCount = <<>>
    /\ fs = {}
    /\ fs0 = {}

\* create_mapping on every manifest within the bounds
SpecResolveInit ==
    /\ ResolveInit
    /\ SyncIdle
    /\ mpc = "idle"
    /\ args = [x \in {} |-> ""]
    /\ keyring = [x \in {} |-> ""]
    /\ exitStatus = -1

SpecResolveNext ==
    \/ ParseManifest
    \/ LoopProject
    \/ ReturnMapping

SpecResolve == SpecResolveInit /\ [][SpecResolveNext]_vars

\* main --sync from the point where create_mapping has returned
SpecSyncInit ==
    /\ SyncInit
    /\ ResolveIdle
    /\ args = [x \in {} |-> ""]

SpecSyncNext ==
    \/ BuildThreads
    \/ StartThread
    \/ Sleep
    \/ JoinThread
    \/ GetPatStep
    \/ ExistsStep
    \/ CheckoutStep
    \/ CloneStep
    \/ MainExit

SpecSync == SpecSyncInit /\ [][SpecSyncNext]_vars

\* main with every combination of --pat and --ghe-pat
SpecMainInit ==
    /\ MainInit
    /\ ResolveIdle
    /\ SyncIdle

SpecMainNext ==
    \/ MainSetPat
    \/ MainSetGhePat
    \/ MainNoAction

SpecMain == SpecMainInit /\ [][SpecMainNext]_vars

(***************************************************************************)
(* Properties of create_mapping (checked under SpecResolve)                *)
(***************************************************************************)
Returned == rpc = "done"

DeclaredNames == {remote_tag[k].name : k \in 1..Len(remote_tag)}

DistinctRemoteNames ==
    \A j, k \in 1..Len(remote_tag) : remote_tag[j].name = remote_tag[k].name => j = k

\* the remote reference of project i: its own attribute, else the default's
EffectiveRemote(i) == ItemRemote(project_tag[i], default_tag[1])

\* the fetch value of the declaration named n (one declaration, names distinct)
FetchOf(n) == remote_tag[CHOOSE k \in 1..Len(remote_tag) : remote_tag[k].name = n].fetch

\* the entry the mapping holds for the name of project i
EntryOf(i) == mapping[KeyIndex(mapping, project_tag[i].name)]

\* position of the last declaration named n
LastDecl(n) ==
    CHOOSE i \in 1..Len(project_tag) :
        /\ project_tag[i].name = n
        /\ \A j \in (i + 1)..Len(project_tag) : project_tag[j].name # n

\* C1: a manifest in which some project's effective remote reference matches
\* no remote declaration makes create_mapping fail: it never returns a mapping.
C1_UnknownRemoteFails ==
    (/\ Len(default_tag) > 0
     /\ \E i \in 1..Len(project_tag) : EffectiveRemote(i) \notin DeclaredNames)
    => ~Returned

\* C3: with distinct remote names, right after a project whose effective
\* remote names a declared remote has been resolved, its entry holds the
\* project's revision if present, else the default's, and as remote exactly
\* the fetch value of the one declaration with that name.
C3_OverrideAndExactLookup ==
    (/\ rpc \in {"loop", "done"}
     /\ idx > 1
     /\ DistinctRemoteNames
     /\ EffectiveRemote(idx - 1) \in DeclaredNames)
    => /\ EntryOf(idx - 1).revision =
            (IF "revision" \in DOMAIN project_tag[idx - 1]
             THEN project_tag[idx - 1].revision ELSE default_tag[1].revision)
       /\ EntryOf(idx - 1).remote = FetchOf(EffectiveRemote(idx - 1))

\* C8: the returned mapping holds exactly one entry for every declared name,
\* and that entry is the one resolved from the last declaration of the name
\* alone: nothing of an earlier declaration survives.
C8_LastDeclarationWins ==
    Returned =>
        \A n \in {project_tag[i].name : i \in 1..Len(project_tag)} :
            /\ Cardinality({k \in 1..Len(mapping) : mapping[k].name = n}) = 1
            /\ mapping[KeyIndex(mapping, n)] =
                   ResolveProject(<<>>, project_tag[LastDecl(n)],
                                  default_tag[1], remote_tag)[1]

\* a name declared twice, the two declarations differing in path, revision
\* and remote, the last one omitting revision and remote
C8_Witness ==
    /\ Returned
    /\ \E i, j \in 1..Len(project_tag) :
         /\ i < j
         /\ project_tag[i].name = project_tag[j].name
         /\ project_tag[i].path # project_tag[j].path
         /\ DOMAIN project_tag[i] = {"name", "path", "revision", "remote"}
         /\ DOMAIN project_tag[j] = {"name", "path"}
         /\ project_tag[i].remote # default_tag[1].remote
         /\ DeclaredNames = RemoteNames

(***************************************************************************)
(* Properties of sync_repos (checked under SpecSync)                       *)
(***************************************************************************)
SyncReturned == mpc \in {"returned", "exited"}

Depth(r) == Count(manifest[r].path, "/")

HasPat(r) == PatKey(manifest[r].remote) \in DOMAIN keyring

Running(r) == Started(r) /\ ~Terminated(r)

\* the destination of r is a proper ancestor of the destination of r2
Ancestor(r, r2) ==
    LET p == DstPath(manifest[r].path)
        q == DstPath(manifest[r2].path)
    IN  Len(p) < Len(q) /\ SubSeq(q, 1, Len(p)) = p

\* C2: no worker of a repo at path depth d2 is started before every worker
\* of every repo at a depth d1 < d2 has been started.
C2_AscendingLaunch ==
    \A r1, r2 \in Workers :
        (Started(r2) /\ Depth(r1) < Depth(r2)) => Started(r1)

\* C4: when sync has ended and some repo's worker failed, the exit status
\* is not the status 0 of a sync in which every worker succeeded.
C4_ExitStatusReflectsFailure ==
    (mpc = "exited" /\ \E r \in Workers : Failed(r)) => exitStatus # 0

\* C5: a failed worker neither cancels nor blocks another: a started worker
\* that has not terminated can always take its next step, and when
\* sync_repos returns, every worker beside a failed one was started, ran to
\* its end and, unless its own credential was missing, made its clone or
\* checkout call.
C5_FailureIsolated ==
    /\ \A r \in Workers :
         Running(r) =>
            ENABLED (WorkerGetPat(r) \/ WorkerExists(r)
                     \/ WorkerCheckout(r) \/ WorkerClone(r))
    /\ SyncReturned =>
         \A r, r2 \in Workers :
            (r # r2 /\ Failed(r2)) =>
                /\ Started(r)
                /\ Terminated(r)
                /\ HasPat(r) => Len(calls[r]) = 1

\* sync_repos returned, one worker failed for want of a credential and
\* another one completed its call
C5_Witness ==
    /\ mpc = "returned"
    /\ \E r, r2 \in Workers :
         /\ wpc[r2] = "MissingCredential"
         /\ wpc[r] = "ok"
         /\ Len(calls[r]) = 1

\* C6: a worker makes at most one repository-client call; one that got its
\* credential and terminated made exactly one; the call is a checkout of the
\* repo's revision in the destination when the worker saw the destination
\* exist, and a clone into it with the repo's revision when it saw it absent.
C6_CheckoutIffExists ==
    \A r \in Workers :
        /\ Len(calls[r]) <= 1
        /\ (Terminated(r) /\ wpc[r] # "MissingCredential") => Len(calls[r]) = 1
        /\ wpc[r] \in {"checkout", "clone"} => sawExists[r] # "unknown"
        /\ wpc[r] = "checkout" => sawExists[r] = "yes"
        /\ wpc[r] = "clone" => sawExists[r] = "no"
        /\ Len(calls[r]) = 1 =>
             /\ calls[r][1].dst = DstPath(manifest[r].path)
             /\ calls[r][1].ref = manifest[r].revision
             /\ calls[r][1].op = (IF sawExists[r] = "yes" THEN "checkout" ELSE "clone")
             /\ sawExists[r] \in {"yes", "no"}

\* one worker has checked out, another has cloned a different revision
C6_Witness ==
    \E r, r2 \in Workers :
        /\ Terminated(r) /\ Terminated(r2)
        /\ Len(calls[r]) = 1 /\ calls[r][1].op = "checkout"
        /\ Len(calls[r2]) = 1 /\ calls[r2][1].op = "clone"
        /\ manifest[r].revision # manifest[r2].revision

\* C7: every manifest entry has one thread, in one group; no thread is
\* started twice; and when sync_repos returns every entry's thread has been
\* started once and has terminated.
C7_AllStartedOnceAndJoined ==
    /\ \A r \in Workers : startCount[r] <= 1
    /\ mpc # "build" =>
         \A r \in Workers :
            Cardinality({<<g, t>> \in (1..Len(threads)) \X (1..Len(manifest)) :
                            t <= Len(threads[g].list) /\ threads[g].list[t] = r}) = 1
    /\ SyncReturned =>
         \A r \in Workers : startCount[r] = 1 /\ Terminated(r)

\* sync_repos returned after two depth groups, one worker failed
C7_Witness ==
    /\ mpc = "returned"
    /\ Len(threads) >= 2
    /\ \E r, r2 \in Workers : Failed(r) /\ wpc[r2] = "ok"

\* C9: when no destination existed beforehand, the worker of a repo whose
\* path is an ancestor of another repo's path never sees its destination
\* exist and never checks out.
C9_AncestorAlwaysClones ==
    fs0 = {} =>
        \A r, r2 \in Workers :
            Ancestor(r, r2) =>
                /\ sawExists[r] # "yes"
                /\ \A k \in 1..Len(calls[r]) : calls[r][k].op # "checkout"

(***************************************************************************)
(* Properties of main's credential options (checked under SpecMain)        *)
(***************************************************************************)
\* C10: after main ran with --ghe-pat G the enterprise entry holds G, and
\* the primary entry holds the --pat value when --pat was given and is what
\* it was before otherwise.
C10_GhePatStored ==
    (mpc \in {"dispatch", "exited"} /\ Truthy(args, "ghe_pat")) =>
        /\ EnterpriseKey \in DOMAIN keyring
        /\ keyring[EnterpriseKey] = args.ghe_pat
        /\ Truthy(args, "pat") =>
             (PrimaryKey \in DOMAIN keyring /\ keyring[PrimaryKey] = args.pat)
        /\ ~Truthy(args, "pat") =>
             (PrimaryKey \in DOMAIN keyring => keyring[PrimaryKey] = StoredPat)

====
